---- MODULE Spec2Model ----
(***************************************************************************)
(* Model of src/client.rs of milvus-sdk-rust: the Client facade around the *)
(* generated MilvusServiceClient stub.  A Client is built by Client::new   *)
(* and offers create_collection, drop_collection, has_collection and       *)
(* get_collection.  Every operation is an async fn: it runs synchronously  *)
(* up to its single `.await` on the RPC (building and sending the          *)
(* request), is suspended while the exchange is in flight, and on          *)
(* resumption interprets the response and returns.  Several caller tasks   *)
(* share the one client; the remote service and the transport are the      *)
(* environment.                                                            *)
(***************************************************************************)
EXTENDS Integers, Sequences, FiniteSets, TLC

(* ------------------------------ bounds -------------------------------- *)

\* The callers invoke at most MaxCalls operations between them.
MaxCalls == 2

Callers == {"t1", "t2"}

Names == {"a", "b"}

\* Schemas handed to create_collection; "unencodable" is one whose
\* prost encoding returns Err.
Schemas == {"sch", "unencodable"}

Descriptions == {"desc"}

ShardCounts == {2}

\* ConsistencyLevel values as their i32 codes (passed through `as i32`).
ConsistencyLevels == {0}

\* Transport-level causes of a failed exchange or a failed connection.
Causes == {"unavailable"}

\* The reason strings a server puts in a Status.
Reasons == {"reason"}

(* ------------------------ values and helpers -------------------------- *)

Ok(v) == [tag |-> "Ok", v |-> v]

Err(e) == [tag |-> "Err", e |-> e]

Some(v) == [tag |-> "Some", v |-> v]

None == [tag |-> "None"]

\* A task that has not returned holds no value; one killed by a panic
\* never returns one.
NoResult == [tag |-> "NoResult"]

Panic == [tag |-> "Panic"]

NoArgs == [op |-> "none"]

NoResp == [tag |-> "NoResp"]

\* The channel inside the one Client of the model (self.client).
Channel == "channel"

\* ErrorCode::Success
Success == 0

\* The defined ErrorCode values: Success and a failure code.
KnownCodes == {0, 1}

\* Every i32 the model lets a response carry in Status.error_code: the
\* defined codes and a value outside the enumeration.
WireCodes == KnownCodes \cup {2}

\* ErrorCode::from_i32: Some(code) for a defined code, None otherwise.
from_i32(c) == IF c \in KnownCodes THEN Some(c) ELSE None

\* crate::error: Error::from(tonic::Status), the error of a failed exchange.
ErrorFromTonic(st) == [kind |-> "Communication", cause |-> st]

\* crate::error: Error::from(proto::common::Status), the error of a refused
\* request: the server's code and message.
ErrorFromStatus(status) ==
    [kind |-> "Remote", code |-> status.error_code, reason |-> status.reason]

\* Error::Unknown()
ErrorUnknown == [kind |-> "Unknown"]

\* Error::Communication(e) as Client::new builds it.
ErrorCommunication(e) == [kind |-> "Communication", cause |-> e]

\* utils::new_msg: the common header tagged with the call's MsgType.
new_msg(msg_type) == [msg_type |-> msg_type]

\* Collection::new(client, name)
CollectionNew(client, name) == [client |-> client, name |-> name]

\* schema.convert_collection(name, description) followed by
\* prost::Message::encode into a BytesMut: the bytes, or Err.
EncodeSchema(schema, name, description) ==
    IF schema = "unencodable"
    THEN Err("EncodeError")
    ELSE Ok(<<schema, name, description>>)

(* ------------------------------ state --------------------------------- *)

VARIABLES
    conn,          \* "Disconnected" until Client::new succeeds, then "Connected"
    dialed,        \* what the last MilvusServiceClient::connect returned
    newResult,     \* what the last Client::new returned
    pc,            \* per caller: where its current operation stands
    args,          \* per caller: the operation in progress and its arguments
    ncalls,        \* per caller: how many operations it has invoked
    resp,          \* per caller: the exchange's outcome, once there is one
    result,        \* per caller: what the operation returned
    prev,          \* per caller: the operation it completed just before
    sent,          \* the requests handed to the transport, in order
    collections    \* the collections that exist on the server

vars == <<conn, dialed, newResult, pc, args, ncalls, resp, result, prev, sent, collections>>

NoPrev == [args |-> NoArgs, result |-> NoResult, success |-> FALSE]

Init ==
    /\ conn = "Disconnected"
    /\ dialed = NoResp
    /\ newResult = NoResult
    /\ pc = [t \in Callers |-> "idle"]
    /\ args = [t \in Callers |-> NoArgs]
    /\ ncalls = [t \in Callers |-> 0]
    /\ resp = [t \in Callers |-> NoResp]
    /\ result = [t \in Callers |-> NoResult]
    /\ prev = [t \in Callers |-> NoPrev]
    /\ sent = <<>>
    /\ collections \in SUBSET Names

(* ------------------- the operations' pure parts ----------------------- *)

\* create_collection_request with the encoding error swallowed
\* (unwrap_or_default in place of unwrap): the request goes out with no
\* schema bytes.
create_collection_request_lenient(name, description, schema, shards_num, consistency_level) ==
    LET buf == EncodeSchema(schema, name, description)
    IN  [tag |-> "Send",
         req |-> [base |-> new_msg("CreateCollection"),
                  db_name |-> "",
                  collection_name |-> name,
                  schema |-> IF buf.tag = "Err" THEN <<>> ELSE buf.v,
                  shards_num |-> shards_num,
                  consistency_level |-> consistency_level]]

\* create_collection up to its await: convert and encode the schema
\* (unwrap: an encoding error panics), then build the request.
create_collection_request(name, description, schema, shards_num, consistency_level) ==
    LET buf == EncodeSchema(schema, name, description)
    IN  IF buf.tag = "Err"
        THEN Panic
        ELSE [tag |-> "Send",
              req |-> [base |-> new_msg("CreateCollection"),
                       db_name |-> "",
                       collection_name |-> name,
                       schema |-> buf.v,
                       shards_num |-> shards_num,
                       consistency_level |-> consistency_level]]

\* drop_collection's request.
drop_collection_request(name) ==
    [base |-> new_msg("DropCollection"),
     db_name |-> "",
     collection_name |-> name]

\* has_collection's request.
has_collection_request(name) ==
    [base |-> new_msg("HasCollection"),
     db_name |-> "",
     collection_name |-> name,
     time_stamp |-> 0]

\* create_collection_ret with every defined code taken for a success
\* (`Some(_) => Ok(..)`).
create_collection_ret_any(r, client, name) ==
    IF r.tag = "Err"
    THEN Err(ErrorFromTonic(r.e))
    ELSE IF from_i32(r.v.error_code).tag = "Some"
         THEN Ok(CollectionNew(client, name))
         ELSE Err(ErrorUnknown)

\* create_collection from its await on: r is what the stub's call returned,
\* Ok(Status) or Err(tonic::Status).
create_collection_ret(r, client, name) ==
    IF r.tag = "Err"
    THEN Err(ErrorFromTonic(r.e))
    ELSE LET status == r.v
             code == from_i32(status.error_code)
         IN  IF code.tag = "Some"
             THEN IF code.v = Success
                  THEN Ok(CollectionNew(client, name))
                  ELSE Err(ErrorFromStatus(status))
             ELSE Err(ErrorUnknown)

\* drop_collection_ret with the arms of the match on the code swapped.
drop_collection_ret_swapped(r) ==
    IF r.tag = "Err"
    THEN Err(ErrorFromTonic(r.e))
    ELSE LET status == r.v
             code == from_i32(status.error_code)
         IN  IF code.tag = "Some"
             THEN IF code.v = Success
                  THEN Err(ErrorFromStatus(status))
                  ELSE Ok("unit")
             ELSE Err(ErrorUnknown)

\* drop_collection from its await on.
drop_collection_ret(r) ==
    IF r.tag = "Err"
    THEN Err(ErrorFromTonic(r.e))
    ELSE LET status == r.v
             code == from_i32(status.error_code)
         IN  IF code.tag = "Some"
             THEN IF code.v = Success
                  THEN Ok("unit")
                  ELSE Err(ErrorFromStatus(status))
             ELSE Err(ErrorUnknown)

\* has_collection_ret with a missing status read as the default Status,
\* whose code is Success (res.status.unwrap_or_default()).
has_collection_ret_default(r) ==
    IF r.tag = "Err"
    THEN Err(ErrorFromTonic(r.e))
    ELSE LET res == r.v
             status == IF res.status.tag = "None"
                       THEN [error_code |-> Success, reason |-> ""]
                       ELSE res.status.v
             code == from_i32(status.error_code)
         IN  IF code.tag = "Some"
             THEN IF code.v = Success
                  THEN Ok(res.value)
                  ELSE Err(ErrorFromStatus(status))
             ELSE Err(ErrorUnknown)

\* has_collection_ret with a refusal turned into "does not exist"
\* (`_ => Ok(false)`).
has_collection_ret_absent(r) ==
    IF r.tag = "Err"
    THEN Err(ErrorFromTonic(r.e))
    ELSE LET res == r.v
         IN  IF res.status.tag = "None"
             THEN Err(ErrorUnknown)
             ELSE LET status == res.status.v
                      code == from_i32(status.error_code)
                  IN  IF code.tag = "Some"
                      THEN IF code.v = Success
                           THEN Ok(res.value)
                           ELSE Ok(FALSE)
                      ELSE Err(ErrorUnknown)

\* has_collection from its await on: r is Ok(BoolResponse) or
\* Err(tonic::Status); a BoolResponse has an optional status and a value.
has_collection_ret(r) ==
    IF r.tag = "Err"
    THEN Err(ErrorFromTonic(r.e))
    ELSE LET res == r.v
         IN  IF res.status.tag = "None"
             THEN Err(ErrorUnknown)
             ELSE LET status == res.status.v
                      code == from_i32(status.error_code)
                  IN  IF code.tag = "Some"
                      THEN IF code.v = Success
                           THEN Ok(res.value)
                           ELSE Err(ErrorFromStatus(status))
                      ELSE Err(ErrorUnknown)

\* get_collection_ret with the error of the existence check replaced
\* (`Err(_) => Err(Error::Unknown())`).
get_collection_ret_rewrap(h, client, name) ==
    IF h.tag = "Err"
    THEN Err(ErrorUnknown)
    ELSE IF h.v
         THEN Ok(Some(CollectionNew(client, name)))
         ELSE Ok(None)

\* get_collection_ret with the existence flag cached in the handle.
get_collection_ret_cached(h, client, name) ==
    IF h.tag = "Err"
    THEN h
    ELSE IF h.v
         THEN Ok(Some([client |-> client, name |-> name, exists |-> TRUE]))
         ELSE Ok(None)

\* get_collection after has_collection(name).await: `?` returns an Err
\* as it is, true gives a handle and false gives None.
get_collection_ret(h, client, name) ==
    IF h.tag = "Err"
    THEN h
    ELSE IF h.v
         THEN Ok(Some(CollectionNew(client, name)))
         ELSE Ok(None)

(* ----------------------------- actions -------------------------------- *)

Awaiting == {"create_await", "drop_await", "has_await", "get_await"}

\* Whether the exchange r brought a Status whose code is Success.
ReportsSuccess(r) ==
    /\ r.tag = "Ok"
    /\ IF "status" \in DOMAIN r.v
       THEN r.v.status.tag = "Some" /\ r.v.status.v.error_code = Success
       ELSE r.v.error_code = Success

RECURSIVE Sum(_, _)
Sum(f, S) == IF S = {} THEN 0 ELSE LET x == CHOOSE y \in S : TRUE
                                   IN  f[x] + Sum(f, S \ {x})

\* The operations invoked so far.
Calls == Sum(ncalls, Callers)

\* A caller may invoke an operation when it holds a client and is not in
\* the middle of another operation.
CanCall(t) ==
    /\ conn = "Connected"
    /\ pc[t] \in {"idle", "done"}
    /\ Calls < MaxCalls

\* The bookkeeping of an invocation: count it and, for a caller that keeps
\* what its last operation returned, remember that operation.
Invoke(t, a, keep) ==
    /\ args' = [args EXCEPT ![t] = a]
    /\ ncalls' = [ncalls EXCEPT ![t] = @ + 1]
    /\ prev' = [prev EXCEPT ![t] =
                  IF keep /\ pc[t] = "done"
                  THEN [args |-> args[t], result |-> result[t],
                        success |-> ReportsSuccess(resp[t])]
                  ELSE NoPrev]
    /\ resp' = [resp EXCEPT ![t] = NoResp]
    /\ result' = [result EXCEPT ![t] = NoResult]

\* Handing a request to the stub (self.client.clone().<rpc>(request)).
Send(t, req) ==
    sent' = Append(sent, [caller |-> t, call |-> ncalls[t] + 1, req |-> req])

\* new_ret with the cause wrapped in another kind.
new_ret_unknown(outcome) ==
    IF outcome.tag = "Ok"
    THEN Ok([client |-> outcome.v])
    ELSE Err(ErrorUnknown)

\* Client::new(dst) once MilvusServiceClient::connect(dst) has returned
\* outcome: wrap the stub in a Client, or the cause in Error::Communication.
new_ret(outcome) ==
    IF outcome.tag = "Ok"
    THEN Ok([client |-> outcome.v])
    ELSE Err(ErrorCommunication(outcome.e))

\* Client::new(dst): connect and return.  There is a client to call
\* operations on from the moment new returns Ok.
new(outcome) ==
    /\ conn = "Disconnected"
    /\ dialed' = outcome
    /\ newResult' = new_ret(outcome)
    /\ conn' = IF new_ret(outcome).tag = "Ok" THEN "Connected" ELSE "Disconnected"
    /\ UNCHANGED <<pc, args, ncalls, resp, result, prev, sent, collections>>

\* create_collection, from the call to the await on the RPC.
create_collection(t, keep, name, description, schema, shards_num, consistency_level) ==
    /\ CanCall(t)
    /\ Invoke(t, [op |-> "create_collection", name |-> name, schema |-> schema], keep)
    /\ LET step == create_collection_request(name, description, schema,
                                             shards_num, consistency_level)
       IN  IF step.tag = "Panic"
           THEN /\ pc' = [pc EXCEPT ![t] = "panicked"]
                /\ sent' = sent
           ELSE /\ pc' = [pc EXCEPT ![t] = "create_await"]
                /\ Send(t, step.req)
    /\ UNCHANGED <<conn, dialed, newResult, collections>>

\* drop_collection, from the call to the await on the RPC.
drop_collection(t, keep, name) ==
    /\ CanCall(t)
    /\ Invoke(t, [op |-> "drop_collection", name |-> name], keep)
    /\ pc' = [pc EXCEPT ![t] = "drop_await"]
    /\ Send(t, drop_collection_request(name))
    /\ UNCHANGED <<conn, dialed, newResult, collections>>

\* has_collection, from the call to the await on the RPC.
has_collection(t, keep, name) ==
    /\ CanCall(t)
    /\ Invoke(t, [op |-> "has_collection", name |-> name], keep)
    /\ pc' = [pc EXCEPT ![t] = "has_await"]
    /\ Send(t, has_collection_request(name))
    /\ UNCHANGED <<conn, dialed, newResult, collections>>

\* get_collection, from the call to the await on the RPC: it calls
\* has_collection(name) and awaits it.
get_collection(t, keep, name) ==
    /\ CanCall(t)
    /\ Invoke(t, [op |-> "get_collection", name |-> name], keep)
    /\ pc' = [pc EXCEPT ![t] = "get_await"]
    /\ Send(t, has_collection_request(name))
    /\ UNCHANGED <<conn, dialed, newResult, collections>>

\* The request of caller t's operation in progress.
Request(t) ==
    LET i == CHOOSE j \in 1 .. Len(sent) :
                 sent[j].caller = t /\ sent[j].call = ncalls[t]
    IN  sent[i].req

\* The server handles a CreateCollection or DropCollection request and
\* answers with a Status.  It applies the request exactly when it reports
\* Success; it may report any code.
ServerStatus(t, code, reason) ==
    /\ pc[t] \in {"create_await", "drop_await"}
    /\ resp[t] = NoResp
    /\ resp' = [resp EXCEPT ![t] = Ok([error_code |-> code, reason |-> reason])]
    /\ collections' =
          IF code # Success
          THEN collections
          ELSE IF Request(t).base.msg_type = "CreateCollection"
               THEN collections \cup {Request(t).collection_name}
               ELSE collections \ {Request(t).collection_name}
    /\ UNCHANGED <<conn, dialed, newResult, pc, args, ncalls, result, prev, sent>>

\* The server handles a HasCollection request.  With a Success status the
\* value says whether the collection exists, with another code it is the
\* default false; a response that lacks its status carries any value.
ServerBool(t, status, value) ==
    /\ pc[t] \in {"has_await", "get_await"}
    /\ resp[t] = NoResp
    /\ status.tag = "Some" =>
          value = (/\ status.v.error_code = Success
                   /\ Request(t).collection_name \in collections)
    /\ resp' = [resp EXCEPT ![t] = Ok([status |-> status, value |-> value])]
    /\ UNCHANGED <<conn, dialed, newResult, pc, args, ncalls, result, prev, sent, collections>>

\* The exchange fails in the transport, and the stub's call returns
\* Err(tonic::Status): the request is lost before the server has handled
\* it, or the response is lost after the server has.
TransportFailure(t, cause) ==
    /\ pc[t] \in Awaiting
    /\ resp[t].tag # "Err"
    /\ resp' = [resp EXCEPT ![t] = Err(cause)]
    /\ UNCHANGED <<conn, dialed, newResult, pc, args, ncalls, result, prev, sent, collections>>

\* The awaited call has returned: the task is resumed and the operation
\* runs to its return.
Return(t, r) ==
    /\ resp[t] # NoResp
    /\ result' = [result EXCEPT ![t] = r]
    /\ pc' = [pc EXCEPT ![t] = "done"]
    /\ UNCHANGED <<conn, dialed, newResult, args, ncalls, resp, prev, sent, collections>>

\* has_collection_resume with a retry: a failed exchange is sent again.
has_collection_resume_retry(t) ==
    /\ pc[t] = "has_await"
    /\ IF resp[t].tag = "Err"
       THEN /\ sent' = Append(sent, [caller |-> t, call |-> ncalls[t],
                                     req |-> has_collection_request(args[t].name)])
            /\ resp' = [resp EXCEPT ![t] = NoResp]
            /\ UNCHANGED <<conn, dialed, newResult, pc, args, ncalls, result,
                           prev, collections>>
       ELSE Return(t, has_collection_ret(resp[t]))

\* drop_collection_resume with the client given up after a failed call.
drop_collection_resume_reset(t) ==
    /\ pc[t] = "drop_await"
    /\ resp[t] # NoResp
    /\ result' = [result EXCEPT ![t] = drop_collection_ret(resp[t])]
    /\ pc' = [pc EXCEPT ![t] = "done"]
    /\ conn' = IF drop_collection_ret(resp[t]).tag = "Err"
               THEN "Disconnected"
               ELSE conn
    /\ UNCHANGED <<dialed, newResult, args, ncalls, resp, prev, sent, collections>>

create_collection_resume(t) ==
    /\ pc[t] = "create_await"
    /\ Return(t, create_collection_ret(resp[t], Channel, args[t].name))

drop_collection_resume(t) ==
    /\ pc[t] = "drop_await"
    /\ Return(t, drop_collection_ret(resp[t]))

has_collection_resume(t) ==
    /\ pc[t] = "has_await"
    /\ Return(t, has_collection_ret(resp[t]))

get_collection_resume(t) ==
    /\ pc[t] = "get_await"
    /\ Return(t, get_collection_ret(has_collection_ret(resp[t]), Channel, args[t].name))

ConnectOutcomes == {Ok(Channel)} \cup {Err(c) : c \in Causes}

Statuses == [error_code : WireCodes, reason : Reasons]

OptStatuses == {None} \cup {Some(s) : s \in Statuses}

Next ==
    \/ \E o \in ConnectOutcomes : new(o)
    \/ \E t \in Callers, n \in Names, d \in Descriptions, s \in Schemas,
          k \in ShardCounts, l \in ConsistencyLevels :
          create_collection(t, FALSE, n, d, s, k, l)
    \/ \E t \in Callers, n \in Names : drop_collection(t, FALSE, n)
    \/ \E t \in Callers, n \in Names : has_collection(t, FALSE, n)
    \/ \E t \in Callers, n \in Names : get_collection(t, FALSE, n)
    \/ \E t \in Callers, c \in WireCodes, r \in Reasons : ServerStatus(t, c, r)
    \/ \E t \in Callers, s \in OptStatuses, v \in BOOLEAN : ServerBool(t, s, v)
    \/ \E t \in Callers, c \in Causes : TransportFailure(t, c)
    \/ \E t \in Callers : create_collection_resume(t)
    \/ \E t \in Callers : drop_collection_resume(t)
    \/ \E t \in Callers : has_collection_resume(t)
    \/ \E t \in Callers : get_collection_resume(t)

Spec == Init /\ [][Next]_vars

\* A single sequential caller that keeps what each operation returned
\* while it invokes the next one (let c = create(..).await; drop(..).await).
SeqCaller == "t1"

NextSeq ==
    \/ \E o \in ConnectOutcomes : new(o)
    \/ \E n \in Names, d \in Descriptions, s \in Schemas,
          k \in ShardCounts, l \in ConsistencyLevels :
          create_collection(SeqCaller, TRUE, n, d, s, k, l)
    \/ \E n \in Names : drop_collection(SeqCaller, TRUE, n)
    \/ \E n \in Names : has_collection(SeqCaller, TRUE, n)
    \/ \E n \in Names : get_collection(SeqCaller, TRUE, n)
    \/ \E c \in WireCodes, r \in Reasons : ServerStatus(SeqCaller, c, r)
    \/ \E s \in OptStatuses, v \in BOOLEAN : ServerBool(SeqCaller, s, v)
    \/ \E c \in Causes : TransportFailure(SeqCaller, c)
    \/ create_collection_resume(SeqCaller)
    \/ drop_collection_resume(SeqCaller)
    \/ has_collection_resume(SeqCaller)
    \/ get_collection_resume(SeqCaller)

SpecSeq == Init /\ [][NextSeq]_vars

(* ------------------------------ claims -------------------------------- *)

Done(t) == pc[t] = "done"

Op(t) == args[t].op

\* Whether the exchange of caller t brought a Status at all.
HasStatus(t) ==
    /\ resp[t].tag = "Ok"
    /\ Op(t) \in {"has_collection", "get_collection"} => resp[t].v.status.tag = "Some"

\* That Status's code.
CodeOf(t) ==
    IF Op(t) \in {"has_collection", "get_collection"}
    THEN resp[t].v.status.v.error_code
    ELSE resp[t].v.error_code

\* The requests caller t's k-th invocation has handed to the transport.
RequestsOf(t, k) ==
    {i \in 1 .. Len(sent) : sent[i].caller = t /\ sent[i].call = k}

\* C1: create_collection, drop_collection and has_collection return their
\* success result only when the exchange brought a Status whose code is
\* Success; with any other code, defined or not, they return a Remote or
\* an Unknown error.
C1_OnlySuccessSucceeds ==
    \A t \in Callers :
        (Done(t) /\ Op(t) \in {"create_collection", "drop_collection", "has_collection"}) =>
            /\ result[t].tag = "Ok" => (HasStatus(t) /\ CodeOf(t) = Success)
            /\ (HasStatus(t) /\ CodeOf(t) # Success) =>
                  /\ result[t].tag = "Err"
                  /\ result[t].e.kind \in {"Remote", "Unknown"}

\* A create_collection has returned on a code outside the enumeration.
C1_Witness ==
    \E t \in Callers :
        /\ Done(t) /\ Op(t) = "create_collection"
        /\ HasStatus(t) /\ CodeOf(t) \notin KnownCodes
        /\ result[t] = Err(ErrorUnknown)

\* C2 as stated: on a response with a status, has_collection returns the
\* response's value when the code is Success and a Remote error carrying
\* the code for any other code.
C2_AnyOtherCodeIsRemote ==
    \A t \in Callers :
        (Done(t) /\ Op(t) = "has_collection" /\ HasStatus(t)) =>
            IF CodeOf(t) = Success
            THEN result[t] = Ok(resp[t].v.value)
            ELSE /\ result[t].tag = "Err"
                 /\ result[t].e.kind = "Remote"
                 /\ result[t].e.code = CodeOf(t)

\* C2, amended: on a response with a status, has_collection returns the
\* response's value when the code is Success, a Remote error carrying the
\* code for any other defined code, and an Unknown error for a code outside
\* the enumeration.
C2_DefinedCodeIsRemote ==
    \A t \in Callers :
        (Done(t) /\ Op(t) = "has_collection" /\ HasStatus(t)) =>
            IF CodeOf(t) = Success
            THEN result[t] = Ok(resp[t].v.value)
            ELSE IF CodeOf(t) \in KnownCodes
                 THEN /\ result[t].tag = "Err"
                      /\ result[t].e.kind = "Remote"
                      /\ result[t].e.code = CodeOf(t)
                 ELSE result[t] = Err(ErrorUnknown)

\* One has_collection has returned Ok(true) and another a Remote error.
C2_Witness ==
    \E t, u \in Callers :
        /\ Done(t) /\ Op(t) = "has_collection" /\ HasStatus(t)
        /\ CodeOf(t) = Success /\ result[t] = Ok(TRUE)
        /\ Done(u) /\ Op(u) = "has_collection" /\ HasStatus(u)
        /\ CodeOf(u) \in KnownCodes \ {Success} /\ result[u].tag = "Err"

\* C3: has_collection on a response without a status returns the Unknown
\* error, whatever the response's value.
C3_MissingStatusIsUnknown ==
    \A t \in Callers :
        (/\ Done(t) /\ Op(t) = "has_collection"
         /\ resp[t].tag = "Ok" /\ resp[t].v.status.tag = "None") =>
            result[t] = Err(ErrorUnknown)

\* A has_collection has returned on a response without a status whose
\* value was true.
C3_Witness ==
    \E t \in Callers :
        /\ Done(t) /\ Op(t) = "has_collection"
        /\ resp[t].tag = "Ok" /\ resp[t].v.status.tag = "None"
        /\ resp[t].v.value = TRUE
        /\ result[t].tag = "Err"

\* C4: get_collection(name) returns Some(handle bound to name) exactly when
\* has_collection returns Ok(true) on the same exchange, None exactly when
\* it returns Ok(false), and the same error when it returns one; its only
\* request is one HasCollection request for name.
C4_GetFollowsHas ==
    \A t \in Callers :
        (Done(t) /\ Op(t) = "get_collection") =>
            LET h == has_collection_ret(resp[t])
                handle == [client |-> Channel, name |-> args[t].name]
            IN  /\ (h.tag = "Ok" /\ h.v) <=> result[t] = Ok(Some(handle))
                /\ (h.tag = "Ok" /\ ~h.v) <=> result[t] = Ok(None)
                /\ h.tag = "Err" <=> result[t].tag = "Err"
                /\ h.tag = "Err" => result[t] = h
                /\ Cardinality(RequestsOf(t, ncalls[t])) = 1
                /\ \A i \in RequestsOf(t, ncalls[t]) :
                      /\ sent[i].req.base.msg_type = "HasCollection"
                      /\ sent[i].req.collection_name = args[t].name

\* One get_collection has returned a handle and another has passed on a
\* Remote error.
C4_Witness ==
    \E t, u \in Callers :
        /\ Done(t) /\ Op(t) = "get_collection" /\ result[t].tag = "Ok"
        /\ result[t].v.tag = "Some"
        /\ Done(u) /\ Op(u) = "get_collection" /\ result[u].tag = "Err"
        /\ result[u].e.kind = "Remote"

C6_EncodeBeforeSend ==
    /\ \A t \in Callers :
          (Op(t) = "create_collection" /\ args[t].schema = "unencodable") =>
              /\ pc[t] = "panicked"
              /\ RequestsOf(t, ncalls[t]) = {}
              /\ result[t] = NoResult
    /\ \A i \in 1 .. Len(sent) :
          sent[i].req.base.msg_type = "CreateCollection" =>
              \E sc \in Schemas, d \in Descriptions :
                  EncodeSchema(sc, sent[i].req.collection_name, d) = Ok(sent[i].req.schema)

\* A create_collection has panicked on its schema.
C6_Witness ==
    \E t \in Callers :
        /\ Op(t) = "create_collection" /\ args[t].schema = "unencodable"
        /\ pc[t] = "panicked"

\* The exchange of caller t failed: in the transport, by a missing status
\* or by a code other than Success.
Failed(t) ==
    \/ resp[t].tag = "Err"
    \/ resp[t].tag = "Ok" /\ ~HasStatus(t)
    \/ HasStatus(t) /\ CodeOf(t) # Success

\* C7: an invocation hands at most one request to the transport, and one
\* whose exchange failed has returned an error of a kind of the taxonomy.
C7_NoRetry ==
    \A t \in Callers :
        /\ \A k \in 1 .. ncalls[t] : Cardinality(RequestsOf(t, k)) <= 1
        /\ (Done(t) /\ Failed(t)) =>
              /\ result[t].tag = "Err"
              /\ result[t].e.kind \in {"Communication", "Remote", "Unknown"}

\* A has_collection has returned after a failure in the transport.
C7_Witness ==
    \E t \in Callers :
        /\ Done(t) /\ Op(t) = "has_collection"
        /\ resp[t].tag = "Err"
        /\ result[t].tag = "Err"
        /\ Cardinality(RequestsOf(t, ncalls[t])) = 1

\* C8: the client is Disconnected or Connected; an operation is invoked
\* only on a Connected client, and the client stays Connected whatever the
\* operations return.
C8_StaysConnected ==
    /\ conn \in {"Disconnected", "Connected"}
    /\ (sent # <<>> \/ \E t \in Callers : pc[t] # "idle") => conn = "Connected"
    /\ conn = "Connected" <=> newResult.tag = "Ok"

\* A drop_collection has failed on a caller that can still invoke.
C8_Witness ==
    \E t \in Callers :
        /\ Done(t) /\ Op(t) = "drop_collection" /\ Failed(t)
        /\ CanCall(t)

\* A caller that has returned from drop_collection(name) right after a
\* create_collection(name), both reported Success by the server.
CreateThenDrop(t) ==
    /\ Done(t) /\ Op(t) = "drop_collection"
    /\ prev[t].args.op = "create_collection"
    /\ prev[t].args.name = args[t].name
    /\ prev[t].success
    /\ ReportsSuccess(resp[t])

\* C9: create_collection(name) followed at once by drop_collection(name),
\* both reported Success: the first returned a handle bound to name, the
\* second returned unit, and the create request reached the transport
\* before the drop request.
C9_CreateThenDrop ==
    \A t \in Callers :
        CreateThenDrop(t) =>
            /\ prev[t].result = Ok([client |-> Channel, name |-> args[t].name])
            /\ result[t] = Ok("unit")
            /\ \A i \in RequestsOf(t, ncalls[t] - 1), j \in RequestsOf(t, ncalls[t]) :
                  /\ i < j
                  /\ sent[i].req.base.msg_type = "CreateCollection"
                  /\ sent[j].req.base.msg_type = "DropCollection"
            /\ RequestsOf(t, ncalls[t] - 1) # {}
            /\ RequestsOf(t, ncalls[t]) # {}

C9_Witness ==
    \E t \in Callers : CreateThenDrop(t)

\* The handles caller t has been returned.
HandlesOf(t) ==
    IF ~Done(t) \/ result[t].tag # "Ok"
    THEN {}
    ELSE IF Op(t) = "create_collection"
         THEN {result[t].v}
         ELSE IF Op(t) = "get_collection" /\ result[t].v.tag = "Some"
              THEN {result[t].v.v}
              ELSE {}

\* C10: a handle records the name it was asked for and the client's
\* channel, and nothing of the collection's state.
C10_HandleIsNameAndChannel ==
    \A t \in Callers : \A h \in HandlesOf(t) :
        h = [client |-> Channel, name |-> args[t].name]

\* A caller holds the handle get_collection returned while the collection
\* is gone: another caller's drop_collection of it has succeeded since.
C10_Witness ==
    \E t, u \in Callers :
        /\ t # u
        /\ Done(t) /\ Op(t) = "get_collection"
        /\ result[t] = Ok(Some([client |-> Channel, name |-> args[t].name]))
        /\ ReportsSuccess(resp[t])
        /\ Done(u) /\ Op(u) = "drop_collection" /\ args[u].name = args[t].name
        /\ result[u] = Ok("unit")
        /\ args[t].name \notin collections

====
